---------------------------- MODULE Spec2Model ----------------------------
(***************************************************************************)
(* Customer service: the Customer entity (service/models.py) and the REST  *)
(* resource handlers (service/routes.py).                                  *)
(*                                                                         *)
(* One HTTP request is one atomic step.  Each request runs in its own      *)
(* application context, so the ORM session holds nothing from earlier      *)
(* requests: what a handler did not commit is gone when it returns.  The   *)
(* store `db` is therefore the committed table only.  Request-schema       *)
(* validation and response marshalling by the REST framework and the URL   *)
(* converters of the routes are not part of this model: handlers are       *)
(* modelled from their bodies, with the path id as their argument.         *)
(***************************************************************************)
EXTENDS Integers, Sequences, FiniteSets

VARIABLES db, nextId, ent, req, resp

vars == <<db, nextId, ent, req, resp>>

\* ------------------------------------------------------------------ bounds
\* Number of rows the table's id sequence may hand out in a run.
MaxCustomers == 2
\* Longest string drawn for a deserialize() input.
MaxStrLen == 2

\* ------------------------------------------------------ values (Python/JSON)
\* A value is a tagged record of one shape: t is the Python type.
Val(t, s, b, n) == [t |-> t, s |-> s, b |-> b, n |-> n]
Str(s) == Val("str", s, FALSE, 0)
Bool(b) == Val("bool", <<>>, b, 0)
Num(n) == Val("int", <<>>, FALSE, n)
None == Val("None", <<>>, FALSE, 0)
\* Marks a key that the mapping does not have.
Missing == Val("missing", <<>>, FALSE, 0)

IsStr(v) == v.t = "str"
IsBool(v) == v.t = "bool"

\* Python truthiness: None, 0, False and "" are falsy.
Truthy(v) ==
    CASE v.t = "None" -> FALSE
      [] v.t = "missing" -> FALSE
      [] v.t = "int" -> v.n # 0
      [] v.t = "bool" -> v.b
      [] v.t = "str" -> v.s # <<>>

IsSpace(c) == c = " "

RECURSIVE LStrip(_)
LStrip(s) == IF s # <<>> /\ IsSpace(Head(s)) THEN LStrip(Tail(s)) ELSE s

RECURSIVE RStrip(_)
RStrip(s) ==
    IF s # <<>> /\ IsSpace(s[Len(s)]) THEN RStrip(SubSeq(s, 1, Len(s) - 1)) ELSE s

\* str.strip(): leading and trailing whitespace removed.
Strip(s) == RStrip(LStrip(s))

\* ------------------------------------------------------------------ errors
Err(exc, kind, field) == [exc |-> exc, kind |-> kind, field |-> field]
NoErr == Err("none", "", "")
\* raise DataValidationError(...)
DVE(kind, field) == Err("DataValidationError", kind, field)
IsDVE(e) == e.exc = "DataValidationError"

\* ------------------------------------------------------------------ entity
Fields == {"name", "email", "password", "address", "active"}
Required == {"name", "email", "password"}

Customer(id, name, email, password, address, active) ==
    [id |-> id, name |-> name, email |-> email, password |-> password,
     address |-> address, active |-> active]

\* Customer(): every column attribute unset.
NewCustomer == Customer(None, None, None, None, None, None)

\* A request body: a mapping of the six keys (a key may be Missing), or no
\* mapping at all (kind "none": request carried no JSON object).
Payload(kind, id, name, email, password, address, active) ==
    [kind |-> kind, id |-> id, name |-> name, email |-> email,
     password |-> password, address |-> address, active |-> active]
NoData == Payload("none", Missing, Missing, Missing, Missing, Missing, Missing)

Has(data, k) == data[k] # Missing

\* Customer.serialize()
serialize(self) ==
    [id |-> self.id, name |-> self.name, password |-> self.password,
     email |-> self.email, address |-> self.address, active |-> self.active]
NoBody == serialize(NewCustomer)

Res(e, err) == [ent |-> e, err |-> err]

\* deserialize() with the isinstance check of `active` dropped.
deserializeNoTypeCheck(self, data) ==
    IF data.kind # "dict" THEN Res(self, DVE("baddata", ""))
    ELSE IF ~Has(data, "name") THEN Res(self, DVE("missing", "name"))
    ELSE LET e1 == [self EXCEPT !.name = data.name] IN
    IF ~Has(data, "email") THEN Res(e1, DVE("missing", "email"))
    ELSE LET e2 == [e1 EXCEPT !.email = data.email] IN
    IF ~Has(data, "active") THEN Res(e2, DVE("missing", "active"))
    ELSE LET e3 == [e2 EXCEPT !.active = data.active] IN
    IF ~Has(data, "address") THEN Res(e3, DVE("missing", "address"))
    ELSE LET e4 == [e3 EXCEPT !.address = data.address] IN
    IF ~Has(data, "password") THEN Res(e4, DVE("missing", "password"))
    ELSE LET e5 == [e4 EXCEPT !.password = data.password] IN
    IF ~Truthy(e5.id) /\ Has(data, "id")
    THEN Res([e5 EXCEPT !.id = data.id], NoErr)
    ELSE Res(e5, NoErr)

\* deserialize() reading the password with data.get("password"): a missing
\* key gives None instead of raising KeyError.
deserializeGetPassword(self, data) ==
    IF data.kind # "dict" THEN Res(self, DVE("baddata", ""))
    ELSE IF ~Has(data, "name") THEN Res(self, DVE("missing", "name"))
    ELSE LET e1 == [self EXCEPT !.name = data.name] IN
    IF ~Has(data, "email") THEN Res(e1, DVE("missing", "email"))
    ELSE LET e2 == [e1 EXCEPT !.email = data.email] IN
    IF ~Has(data, "active") THEN Res(e2, DVE("missing", "active"))
    ELSE IF ~IsBool(data.active) THEN Res(e2, DVE("badtype", "active"))
    ELSE LET e3 == [e2 EXCEPT !.active = data.active] IN
    IF ~Has(data, "address") THEN Res(e3, DVE("missing", "address"))
    ELSE LET e4 == [e3 EXCEPT !.address = data.address]
             e5 == [e4 EXCEPT !.password =
                        IF Has(data, "password") THEN data.password ELSE None]
         IN
    IF ~Truthy(e5.id) /\ Has(data, "id")
    THEN Res([e5 EXCEPT !.id = data.id], NoErr)
    ELSE Res(e5, NoErr)

\* Customer.deserialize(data): the assignments run in source order, so the
\* entity keeps what was assigned before the statement that raised.
deserialize(self, data) ==
    IF data.kind # "dict"
    THEN Res(self, DVE("baddata", ""))              \* TypeError, wrapped
    ELSE IF ~Has(data, "name")
    THEN Res(self, DVE("missing", "name"))          \* KeyError, wrapped
    ELSE LET e1 == [self EXCEPT !.name = data.name] IN
    IF ~Has(data, "email")
    THEN Res(e1, DVE("missing", "email"))
    ELSE LET e2 == [e1 EXCEPT !.email = data.email] IN
    IF ~Has(data, "active")
    THEN Res(e2, DVE("missing", "active"))
    ELSE IF ~IsBool(data.active)
    THEN Res(e2, DVE("badtype", "active"))
    ELSE LET e3 == [e2 EXCEPT !.active = data.active] IN
    IF ~Has(data, "address")
    THEN Res(e3, DVE("missing", "address"))
    ELSE LET e4 == [e3 EXCEPT !.address = data.address] IN
    IF ~Has(data, "password")
    THEN Res(e4, DVE("missing", "password"))
    ELSE LET e5 == [e4 EXCEPT !.password = data.password] IN
    IF ~Truthy(e5.id) /\ Has(data, "id")
    THEN Res([e5 EXCEPT !.id = data.id], NoErr)
    ELSE Res(e5, NoErr)


\* --------------------------------------------------------- store (the table)
\* db maps each stored id to its row; the id column is filled from a
\* sequence, so an id once handed out is never handed out again.
Upsert(d, i, row) == [j \in (DOMAIN d) \cup {i} |-> IF j = i THEN row ELSE d[j]]
Remove(d, i) == [j \in (DOMAIN d) \ {i} |-> d[j]]

\* Customer.find(by_id): the row, if any.
Found(d, i) == i \in DOMAIN d

\* Customer.all() and the find_by_* queries (exact match on one column).
all(d) == {d[i] : i \in DOMAIN d}
find_by_name(d, name) == {d[i] : i \in {j \in DOMAIN d : d[j].name = name}}
find_by_email(d, email) == {d[i] : i \in {j \in DOMAIN d : d[j].email = email}}
find_by_address(d, address) ==
    {d[i] : i \in {j \in DOMAIN d : d[j].address = address}}
find_by_active(d, active) ==
    {d[i] : i \in {j \in DOMAIN d : d[j].active = active}}

\* ---------------------------------------------------------- entity methods
\* Result of a method that may commit: the entity, the error raised (if
\* any), the table and the id sequence afterwards.
MRes(e, err, d, n) == [ent |-> e, err |-> err, db |-> d, nextId |-> n]

\* x.strip() on something that is no str raises AttributeError.
AttrErr(field) == Err("AttributeError", "strip", field)

\* The column default of `active` applies when the attribute is unset.
WithDefaults(e) == IF e.active = None THEN [e EXCEPT !.active = Bool(FALSE)] ELSE e

\* Customer.create()
create(self, d, n) ==
    LET e == [self EXCEPT !.id = None] IN
    IF e.name = None THEN MRes(e, DVE("notset", "name"), d, n)
    ELSE IF ~IsStr(e.name) THEN MRes(e, AttrErr("name"), d, n)
    ELSE IF Strip(e.name.s) = <<>> THEN MRes(e, DVE("notset", "name"), d, n)
    ELSE IF e.email = None THEN MRes(e, DVE("notset", "email"), d, n)
    ELSE IF ~IsStr(e.email) THEN MRes(e, AttrErr("email"), d, n)
    ELSE IF Strip(e.email.s) = <<>> THEN MRes(e, DVE("notset", "email"), d, n)
    ELSE IF e.password = None THEN MRes(e, DVE("notset", "password"), d, n)
    ELSE IF ~IsStr(e.password) THEN MRes(e, AttrErr("password"), d, n)
    ELSE IF Strip(e.password.s) = <<>>
         THEN MRes(e, DVE("notset", "password"), d, n)
    ELSE \* db.session.add(self); db.session.commit(): the sequence gives the id
         LET row == WithDefaults([e EXCEPT !.id = Num(n)])
         IN  MRes(row, NoErr, Upsert(d, n, row), n + 1)

\* update() without the checks of name, email and password.
updateNoCheck(self, d) ==
    IF ~Truthy(self.id) THEN MRes(self, DVE("noid", "id"), d, 0)
    ELSE IF self.id.t = "int" /\ Found(d, self.id.n)
         THEN MRes(self, NoErr, Upsert(d, self.id.n, self), 0)
         ELSE MRes(self, NoErr, d, 0)

\* Customer.update(): there is no None check here, so a None (or any
\* non-str) field raises AttributeError at .strip().
update(self, d) ==
    IF ~Truthy(self.id) THEN MRes(self, DVE("noid", "id"), d, 0)
    ELSE IF ~IsStr(self.name) THEN MRes(self, AttrErr("name"), d, 0)
    ELSE IF Strip(self.name.s) = <<>> THEN MRes(self, DVE("notset", "name"), d, 0)
    ELSE IF ~IsStr(self.email) THEN MRes(self, AttrErr("email"), d, 0)
    ELSE IF Strip(self.email.s) = <<>>
         THEN MRes(self, DVE("notset", "email"), d, 0)
    ELSE IF ~IsStr(self.password) THEN MRes(self, AttrErr("password"), d, 0)
    ELSE IF Strip(self.password.s) = <<>>
         THEN MRes(self, DVE("notset", "password"), d, 0)
    ELSE \* db.session.commit(): the loaded row is written back
         IF self.id.t = "int" /\ Found(d, self.id.n)
         THEN MRes(self, NoErr, Upsert(d, self.id.n, self), 0)
         ELSE MRes(self, NoErr, d, 0)

\* delete() that leaves the row in place.
deleteNothing(self, d) == MRes(self, NoErr, d, 0)

\* Customer.delete()
delete(self, d) ==
    IF self.id.t = "int" /\ Found(d, self.id.n)
    THEN MRes(self, NoErr, Remove(d, self.id.n), 0)
    ELSE MRes(self, NoErr, d, 0)


\* ------------------------------------------------------ requests, responses
Resp(status, err, body, active_status, list) ==
    [status |-> status, err |-> err, body |-> body,
     active_status |-> active_status, list |-> list]
\* No response yet.
Pending == Resp(0, NoErr, NoBody, None, {})
\* abort(code, ...)
Abort(status) == Resp(status, Err("HTTPException", "abort", ""), NoBody, None, {})

\* The query string of a list request: each parameter given or Missing.
Query(name, id, email, address, active) ==
    [name |-> name, id |-> id, email |-> email, address |-> address,
     active |-> active]
NoQuery == Query(Missing, Missing, Missing, Missing, Missing)

Req(op, id, ct, fw, data, query, before) ==
    [op |-> op, id |-> id, ct |-> ct, fw |-> fw, data |-> data,
     query |-> query, before |-> before]

\* Result of a handler: the response, the entity object it worked on, the
\* table and the id sequence when the request ends.
HRes(r, e, d, n) == [resp |-> r, ent |-> e, db |-> d, nextId |-> n]

\* The service's error handlers turn DataValidationError into 400; any
\* other exception leaves the handler as an internal server error.
error_status(err) == IF IsDVE(err) THEN 400 ELSE 500
Failed(err) == Resp(error_status(err), err, NoBody, None, {})

\* request.json / api.payload: the parsed body when the Content-Type is a
\* JSON media type; otherwise the framework either refuses the request
\* (415) or yields None, depending on its version (fw).
IsJsonMime(ct) == ct \in {"application/json", "application/vnd.api+json"}
JsonRefused(ct, fw) == ~IsJsonMime(ct) /\ fw = "refuse"
request_json(ct, fw, data) == IF IsJsonMime(ct) THEN data ELSE NoData

\* ---------------------------------------------------------------- handlers
\* CustomerResource.get
CustomerResource_get(id, d, n) ==
    IF ~Found(d, id) THEN HRes(Abort(404), NewCustomer, d, n)
    ELSE HRes(Resp(200, NoErr, serialize(d[id]), None, {}), d[id], d, n)

\* put() that lets the body's id stand and deserializes before looking up.
CustomerResource_putNoFind(id, r, d, n) ==
    LET base == IF Found(d, id) THEN d[id] ELSE [NewCustomer EXCEPT !.id = Num(id)]
        des == deserialize(base, r.data)
        upd == update(des.ent, d)
    IN  IF des.err # NoErr THEN HRes(Failed(des.err), des.ent, d, n)
        ELSE IF upd.err # NoErr THEN HRes(Failed(upd.err), upd.ent, d, n)
        ELSE HRes(Resp(200, NoErr, serialize(upd.ent), None, {}),
                  upd.ent, Upsert(d, id, upd.ent), n)

\* put() that fills a new Customer() from the body and never forces the
\* path id: the body's id decides which row is written.
CustomerResource_putBodyId(id, r, d, n) ==
    IF ~Found(d, id) THEN HRes(Abort(404), NewCustomer, d, n)
    ELSE IF JsonRefused(r.ct, r.fw) THEN HRes(Abort(415), d[id], d, n)
    ELSE LET des == deserialize(NewCustomer, request_json(r.ct, r.fw, r.data)) IN
    IF des.err # NoErr THEN HRes(Failed(des.err), des.ent, d, n)
    ELSE LET upd == update(des.ent, d) IN
    IF upd.err # NoErr THEN HRes(Failed(upd.err), upd.ent, d, n)
    ELSE HRes(Resp(200, NoErr, serialize(upd.ent), None, {}), upd.ent, upd.db, n)

\* CustomerResource.put
CustomerResource_put(id, r, d, n) ==
    IF ~Found(d, id) THEN HRes(Abort(404), NewCustomer, d, n)
    ELSE IF JsonRefused(r.ct, r.fw) THEN HRes(Abort(415), d[id], d, n)
    ELSE LET des == deserialize(d[id], request_json(r.ct, r.fw, r.data)) IN
    IF des.err # NoErr THEN HRes(Failed(des.err), des.ent, d, n)
    ELSE LET upd == update([des.ent EXCEPT !.id = Num(id)], d) IN
    IF upd.err # NoErr THEN HRes(Failed(upd.err), upd.ent, d, n)
    ELSE HRes(Resp(200, NoErr, serialize(upd.ent), None, {}), upd.ent, upd.db, n)

\* CustomerResource.delete
CustomerResource_delete(id, d, n) ==
    IF Found(d, id)
    THEN LET del == delete(d[id], d) IN
         IF del.err # NoErr THEN HRes(Failed(del.err), del.ent, d, n)
         ELSE HRes(Resp(204, NoErr, NoBody, None, {}), del.ent, del.db, n)
    ELSE HRes(Abort(404), NewCustomer, d, n)

\* CustomerCollection.post
CustomerCollection_post(r, d, n) ==
    IF JsonRefused(r.ct, r.fw) THEN HRes(Abort(415), NewCustomer, d, n)
    ELSE LET des == deserialize(NewCustomer, request_json(r.ct, r.fw, r.data)) IN
    IF des.err # NoErr THEN HRes(Failed(des.err), des.ent, d, n)
    ELSE LET cre == create(des.ent, d, n) IN
    IF cre.err # NoErr THEN HRes(Failed(cre.err), cre.ent, d, n)
    ELSE HRes(Resp(201, NoErr, serialize(cre.ent), None, {}),
              cre.ent, cre.db, cre.nextId)

\* activate that flips the flag instead of setting it.
ActivateResource_patchToggle(id, d, n) ==
    IF ~Found(d, id) THEN HRes(Abort(404), NewCustomer, d, n)
    ELSE LET e == [d[id] EXCEPT !.active = Bool(~d[id].active.b)] IN
         HRes(Resp(200, NoErr, NoBody, e.active, {}), e, Upsert(d, id, e), n)

\* ActivateResource.patch
ActivateResource_patch(id, d, n) ==
    IF ~Found(d, id) THEN HRes(Abort(404), NewCustomer, d, n)
    ELSE LET upd == update([d[id] EXCEPT !.active = Bool(TRUE)], d) IN
    IF upd.err # NoErr THEN HRes(Failed(upd.err), upd.ent, d, n)
    ELSE HRes(Resp(200, NoErr, NoBody, upd.ent.active, {}), upd.ent, upd.db, n)

\* DeactivateResource.patch
DeactivateResource_patch(id, d, n) ==
    IF ~Found(d, id) THEN HRes(Abort(404), NewCustomer, d, n)
    ELSE LET upd == update([d[id] EXCEPT !.active = Bool(FALSE)], d) IN
    IF upd.err # NoErr THEN HRes(Failed(upd.err), upd.ent, d, n)
    ELSE HRes(Resp(200, NoErr, NoBody, upd.ent.active, {}), upd.ent, upd.db, n)


\* ------------------------------------------------------------ list handler
\* args_config: the parameters the request parser declares, each required.
Declared == {"name", "id", "active"}

\* customer_args.parse_args(): a declared parameter that is not supplied
\* fails the request with 400; the result has the declared keys only.
ParseOk(q) == \A k \in Declared : q[k] # Missing
parse_args(q) == [k \in Declared |-> q[k]]

\* The find_by_* methods return a Query object, all() returns a list.
AsQuery(rows) == [kind |-> "Query", rows |-> rows]
AsList(rows) == [kind |-> "list", rows |-> rows]

\* len(customers), then the serialized list: a Query object has no len().
ListResponse(customers) ==
    IF customers.kind # "list"
    THEN Failed(Err("TypeError", "len", "customers"))
    ELSE Resp(200, NoErr, NoBody, None, {serialize(c) : c \in customers.rows})

KeyErr(k) == Err("KeyError", "args", k)

\* The if/elif chain of get(): the parse result is indexed by key, and a
\* key the parser does not declare raises KeyError.
Dispatch(args, d) ==
    IF Truthy(args["name"]) THEN ListResponse(AsQuery(find_by_name(d, args["name"])))
    ELSE IF "email" \notin DOMAIN args THEN Failed(KeyErr("email"))
    ELSE IF Truthy(args["email"])
         THEN ListResponse(AsQuery(find_by_email(d, args["email"])))
    ELSE IF "address" \notin DOMAIN args THEN Failed(KeyErr("address"))
    ELSE IF Truthy(args["address"])
         THEN ListResponse(AsQuery(find_by_address(d, args["address"])))
    ELSE IF args["active"] # None
         THEN IF ~IsStr(args["active"])
              THEN Failed(Err("AttributeError", "lower", "active"))
              ELSE ListResponse(AsQuery(find_by_active(d,
                       Bool(args["active"].s = <<"t", "r", "u", "e">>))))
    ELSE ListResponse(AsList(all(d)))

\* CustomerCollection.get
CustomerCollection_get(q, d, n) ==
    IF ~ParseOk(q) THEN HRes(Abort(400), NewCustomer, d, n)
    ELSE HRes(Dispatch(parse_args(q), d), NewCustomer, d, n)

\* ------------------------------------------------------------------ inputs
SA == Str(<<"a">>)
SB == Str(<<"b">>)
SE == Str(<<"e">>)
SP == Str(<<"p">>)
SX == Str(<<"x">>)
Blank == Str(<<" ">>)
Empty == Str(<<>>)

\* Path ids: every id the sequence can hand out, and one it never does.
PathIds == 1..(MaxCustomers + 1)

ValidPayloads ==
    {Payload("dict", Missing, nm, SE, SP, ad, Bool(ac)) :
        nm \in {SA, SB}, ad \in {Missing, SX}, ac \in BOOLEAN}
    \cup {Payload("dict", Num(i), SB, SE, SP, SX, Bool(FALSE)) : i \in {1, 2}}

BasePayload == Payload("dict", Missing, SB, SE, SP, SX, Bool(TRUE))

FaultyPayloads ==
    {[BasePayload EXCEPT !.name = v] : v \in {Missing, None, Blank, Num(5)}}
    \cup {[BasePayload EXCEPT !.email = v] : v \in {None, Blank}}
    \cup {[BasePayload EXCEPT !.password = v] : v \in {Missing, Blank}}
    \cup {[BasePayload EXCEPT !.active = v] :
            v \in {Num(1), Str(<<"t", "r", "u", "e">>)}}

HandlerPayloads == ValidPayloads \cup FaultyPayloads

Body(ct, fw, data) == [ct |-> ct, fw |-> fw, data |-> data]

\* What a client may send as a body: a JSON object under the expected
\* Content-Type, the same under other Content-Types (or none, ""), and a
\* request with no JSON object in it.
Bodies ==
    {Body("application/json", "refuse", p) : p \in HandlerPayloads}
    \cup {Body("application/json", "refuse", NoData)}
    \cup {Body("application/vnd.api+json", "refuse", BasePayload)}
    \cup {Body("", fw, BasePayload) : fw \in {"refuse", "none"}}
    \cup {Body("text/plain", "refuse", BasePayload)}

Queries ==
    {Query(nm, i, Missing, Missing, ac) :
        nm \in {Missing, Empty, SA}, i \in {Missing, Str(<<"1">>)},
        ac \in {Missing, Bool(TRUE)}}
    \cup {Query(Missing, Missing, SE, SX, Missing)}

\* ----------------------------------------------------------------- actions
Init ==
    /\ db = <<>>
    /\ nextId = 1
    /\ ent = NewCustomer
    /\ req = Req("init", 0, "", "", NoData, NoQuery, NewCustomer)
    /\ resp = Pending

\* One request handled from start to end.
Handle(r, h) ==
    /\ db' = h.db
    /\ nextId' = h.nextId
    /\ ent' = h.ent
    /\ req' = r
    /\ resp' = h.resp

HttpReq(op, id, b, q) == Req(op, id, b.ct, b.fw, b.data, q, NewCustomer)
NoBodyReq == Body("", "", NoData)

Create ==
    \E b \in Bodies :
        LET h == CustomerCollection_post(b, db, nextId) IN
        /\ h.nextId # nextId => nextId <= MaxCustomers
        /\ Handle(HttpReq("post", 0, b, NoQuery), h)

Retrieve ==
    \E id \in PathIds :
        Handle(HttpReq("get", id, NoBodyReq, NoQuery),
               CustomerResource_get(id, db, nextId))

Update ==
    \E id \in PathIds, b \in Bodies :
        Handle(HttpReq("put", id, b, NoQuery),
               CustomerResource_put(id, b, db, nextId))

Delete ==
    \E id \in PathIds :
        Handle(HttpReq("delete", id, NoBodyReq, NoQuery),
               CustomerResource_delete(id, db, nextId))

List ==
    \E q \in Queries :
        Handle(HttpReq("list", 0, NoBodyReq, q),
               CustomerCollection_get(q, db, nextId))

Activate ==
    \E id \in PathIds :
        Handle(HttpReq("activate", id, NoBodyReq, NoQuery),
               ActivateResource_patch(id, db, nextId))

Deactivate ==
    \E id \in PathIds :
        Handle(HttpReq("deactivate", id, NoBodyReq, NoQuery),
               DeactivateResource_patch(id, db, nextId))

Next ==
    \/ Create
    \/ Retrieve
    \/ Update
    \/ Delete
    \/ List
    \/ Activate
    \/ Deactivate

Spec == Init /\ [][Next]_vars


\* ------------------------------------------- deserialize() as a function
\* Every string over {" ", "a"} of at most n characters.
RECURSIVE StringsUpTo(_)
StringsUpTo(n) ==
    IF n = 0 THEN {<<>>}
    ELSE LET shorter == StringsUpTo(n - 1) IN
         shorter \cup {Append(s, c) : s \in shorter, c \in {" ", "a"}}

\* The entities deserialize() is called on: a new Customer(), and one
\* loaded from the table.
DeserEntities ==
    {NewCustomer, Customer(Num(1), SB, SE, SP, SX, Bool(FALSE))}

DeserPayloads ==
    {Payload("dict", i, nm, em, pw, ad, ac) :
        i \in {Missing, Num(1), Num(2)},
        nm \in {Missing, None, Num(5)} \cup {Str(x) : x \in StringsUpTo(MaxStrLen)},
        em \in {Missing, None, Blank, SE},
        pw \in {Missing, None, Blank, SP},
        ad \in {Missing, None, SX},
        ac \in {Missing, None, Bool(TRUE), Bool(FALSE), Num(0), Num(1),
                Empty, Str(<<"t", "r", "u", "e">>)}}
    \cup {NoData}

InitDeserialize ==
    /\ db = <<>>
    /\ nextId = 1
    /\ ent \in DeserEntities
    /\ \E data \in DeserPayloads :
           req = Req("deserialize", 0, "", "", data, NoQuery, ent)
    /\ resp = Pending

\* One call customer.deserialize(data); a call that raises leaves the
\* entity as the assignments before the raise made it.
DeserializeCall ==
    /\ req.op = "deserialize"
    /\ resp = Pending
    /\ LET r == deserialize(ent, req.data) IN
       /\ ent' = r.ent
       /\ resp' = Resp(1, r.err, IF r.err = NoErr THEN serialize(r.ent) ELSE NoBody,
                       None, {})
    /\ UNCHANGED <<db, nextId, req>>

NextDeserialize == DeserializeCall

SpecDeserialize == InitDeserialize /\ [][NextDeserialize]_vars

\* =================================================================== claims
Deserialized == req.op = "deserialize" /\ resp.status = 1
NonBlankStr(v) == IsStr(v) /\ Strip(v.s) # <<>>

\* The body of a request reached the handler as a JSON object under the
\* expected Content-Type.
JsonObject(r) == r.ct = "application/json" /\ r.data.kind = "dict"

\* C1: a create request whose payload has non-blank name, email, password
\* and a boolean active answers 201 and stores a new row under an id that
\* no row had; the id is the storage's, never the payload's, and no other
\* row changes.
C1_CreateStoresFreshRow ==
    [][(/\ req'.op = "post"
        /\ JsonObject(req')
        /\ \A f \in Required : NonBlankStr(req'.data[f])
        /\ IsBool(req'.data.active))
       => /\ resp'.status = 201
          /\ ent'.id.t = "int"
          /\ ent'.id.n \notin DOMAIN db
          /\ ent'.id.n = nextId
          /\ db' = Upsert(db, ent'.id.n, ent')
          /\ resp'.body = serialize(ent')]_vars

\* deserialize() reports the keys in this order.
KeyOrder == <<"name", "email", "active", "address", "password">>
FirstMissing(data) ==
    KeyOrder[CHOOSE i \in 1..Len(KeyOrder) :
                /\ ~Has(data, KeyOrder[i])
                /\ \A j \in 1..(i - 1) : Has(data, KeyOrder[j])]
LacksRequired(data) == data.kind = "dict" /\ \E f \in Required : ~Has(data, f)
\* name and email are there and active is there but is no boolean.
ActiveRejectedFirst(data) ==
    /\ Has(data, "name") /\ Has(data, "email")
    /\ Has(data, "active") /\ ~IsBool(data.active)

\* C2 (as stated): for a mapping that lacks name, email or password,
\* deserialize raises DataValidationError whose message names a key the
\* mapping lacks, and returns no entity.
C2_MissingFieldNamed ==
    (Deserialized /\ LacksRequired(req.data))
    => /\ IsDVE(resp.err)
       /\ resp.err.kind = "missing"
       /\ ~Has(req.data, resp.err.field)

\* C2 (amended): for a mapping that lacks name, email or password,
\* deserialize raises DataValidationError and returns no entity; the
\* message names the first key the mapping lacks (in the order name, email,
\* active, address, password), except that when name and email are there
\* and active is there but is no boolean the message reports the type of
\* active instead.
C2_MissingFieldRejected ==
    (Deserialized /\ LacksRequired(req.data))
    => /\ IsDVE(resp.err)
       /\ resp.body = NoBody
       /\ IF ActiveRejectedFirst(req.data)
          THEN resp.err.kind = "badtype" /\ resp.err.field = "active"
          ELSE resp.err.kind = "missing"
               /\ resp.err.field = FirstMissing(req.data)

C2_Witness ==
    /\ Deserialized
    /\ Has(req.data, "name") /\ Has(req.data, "email")
    /\ IsBool(req.data.active) /\ Has(req.data, "address")
    /\ ~Has(req.data, "password")
    /\ resp.err = DVE("missing", "password")

\* C3: when the mapping has an active value that is no boolean (a string,
\* a number), deserialize raises DataValidationError and the entity's
\* active is what it was before the call.
C3_NonBooleanActiveRejected ==
    (/\ Deserialized
     /\ req.data.kind = "dict"
     /\ Has(req.data, "active")
     /\ ~IsBool(req.data.active))
    => /\ IsDVE(resp.err)
       /\ ent.active = req.before.active

C3_Witness ==
    /\ Deserialized
    /\ req.data.active = Num(1)
    /\ \A k \in Fields : Has(req.data, k)
    /\ resp.err = DVE("badtype", "active")
    /\ ent.active = Bool(FALSE)

\* C4: a mapping with name, email, password and a boolean active but no
\* address key deserializes into a new Customer() without error and leaves
\* its address None.
C4_AddressOptional ==
    (/\ Deserialized
     /\ req.data.kind = "dict"
     /\ \A f \in Required : NonBlankStr(req.data[f])
     /\ IsBool(req.data.active)
     /\ ~Has(req.data, "address")
     /\ req.before = NewCustomer)
    => /\ resp.err = NoErr
       /\ ent.address = None


\* A field value update() is meant to refuse: None or whitespace only.
NullOrBlank(v) == v = None \/ (IsStr(v) /\ Strip(v.s) = <<>>)

\* The body deserializes: every key is there and active is a boolean.
Deserializes(data) ==
    /\ data.kind = "dict"
    /\ \A k \in Fields : Has(data, k)
    /\ IsBool(data.active)

\* C5: update() raises DataValidationError on an entity without id, and on
\* a stored entity whose name, email or password is None or whitespace
\* only; the failed update leaves the table as it was.
C5_UpdateRejectsNullOrBlank ==
    [][/\ IsDVE(update([ent' EXCEPT !.id = None], db').err)
       /\ update([ent' EXCEPT !.id = None], db').db = db'
       /\ (/\ req'.op = "put"
           /\ Found(db, req'.id)
           /\ JsonObject(req')
           /\ Deserializes(req'.data)
           /\ \E f \in Required : NullOrBlank(req'.data[f]))
          => /\ IsDVE(resp'.err)
             /\ resp'.status = 400
             /\ db' = db]_vars

\* What the list is meant to be: the query of the first parameter given,
\* in the order name, email, address, active; all rows when none is given.
ExpectedList(q, d) ==
    LET rows == IF q.name # Missing THEN find_by_name(d, q.name)
                ELSE IF q.email # Missing THEN find_by_email(d, q.email)
                ELSE IF q.address # Missing THEN find_by_address(d, q.address)
                ELSE IF q.active # Missing THEN find_by_active(d, q.active)
                ELSE all(d)
    IN  {serialize(c) : c \in rows}

\* C6: a list request answers 200 with the result of the find-by query of
\* the highest-priority parameter supplied (name, email, address, active),
\* and with the whole collection when no parameter is supplied.
C6_ListFirstMatchWins ==
    req.op = "list" => /\ resp.status = 200
                       /\ resp.list = ExpectedList(req.query, db)

\* C7: on a stored id, activate sets active to True and deactivate sets it
\* to False and nothing else in the table changes; repeating either changes
\* nothing; deactivate after activate leaves active False.
C7_ActivateDeactivate ==
    [][/\ (req'.op = "activate" /\ Found(db, req'.id))
          => /\ resp'.status = 200
             /\ resp'.active_status = Bool(TRUE)
             /\ db' = [db EXCEPT ![req'.id].active = Bool(TRUE)]
             /\ db[req'.id].active = Bool(TRUE) => db' = db
       /\ (req'.op = "deactivate" /\ Found(db, req'.id))
          => /\ resp'.status = 200
             /\ resp'.active_status = Bool(FALSE)
             /\ db' = [db EXCEPT ![req'.id].active = Bool(FALSE)]
             /\ db[req'.id].active = Bool(FALSE) => db' = db
       /\ (/\ req.op = "activate" /\ resp.status = 200
           /\ req'.op = "deactivate" /\ req'.id = req.id)
          => db'[req.id].active = Bool(FALSE)
       /\ req'.op \in {"activate", "deactivate"} => nextId' = nextId]_vars

C7_Witness ==
    /\ req.op = "deactivate"
    /\ resp.status = 200
    /\ db[req.id].active = Bool(FALSE)
    /\ \E j \in DOMAIN db : j # req.id /\ db[j].active = Bool(TRUE)

ByIdOps == {"get", "put", "delete", "activate", "deactivate"}

\* C8: for an id that is not stored, retrieve, update, delete, activate and
\* deactivate answer 404 and leave the table as it was; nothing of the body
\* is looked at first (no 400, no 415, no entity touched).
C8_NotFoundFirst ==
    [][(req'.op \in ByIdOps /\ ~Found(db, req'.id))
       => /\ resp'.status = 404
          /\ db' = db
          /\ nextId' = nextId
          /\ ent' = NewCustomer]_vars

C8_Witness ==
    /\ req.op = "put"
    /\ resp.status = 404
    /\ req.data \in FaultyPayloads
    /\ DOMAIN db # {}
    /\ req.id \notin DOMAIN db

\* Ids the sequence has handed out whose row is gone.
Deleted(d, n) == {i \in 1..(n - 1) : i \notin DOMAIN d}

C10_ContentTypeEnforced ==
    [][(/\ req'.op \in {"post", "put"}
        /\ req'.ct # "application/json")
       => /\ resp'.status = 415
          /\ db' = db]_vars


\* ----------------------------------------------------------------- routing
\* The by-id resources as the URL map declares them.  A client fills the
\* customer_id segment of a URL with the decimal text of an id (what the
\* service returns as "id") or with a UUID text; the rule's converter
\* decides whether the URL matches at all.
Seg(form, n) == [form |-> form, n |-> n]
Segments == {Seg("int", i) : i \in PathIds} \cup {Seg("uuid", 1)}

\* @api.route(...): the converter of customer_id and the methods the
\* Resource class defines.
Rule(name, conv, methods) == [name |-> name, conv |-> conv, methods |-> methods]
CustomerRule == Rule("customer", "uuid", {"GET", "PUT", "DELETE"})
ActivateRule == Rule("activate", "int", {"PATCH"})
DeactivateRule == Rule("deactivate", "int", {"PATCH"})
Rules == {CustomerRule, ActivateRule, DeactivateRule}
Methods == {"GET", "PUT", "DELETE", "PATCH"}

\* How the database driver takes a UUID compared with the integer id
\* column: the lookup finds no row, or the statement fails.
Drivers == {"norow", "dberror"}

\* The key a uuid converter hands to the handler: equal to no integer id.
UuidKey(k) == 0 - k

RoutedBody == Body("application/json", "refuse", BasePayload)

RoutedReq(method, rule, seg, drv) ==
    [op |-> "route", id |-> seg.n, ct |-> RoutedBody.ct, fw |-> RoutedBody.fw,
     data |-> RoutedBody.data, query |-> NoQuery, before |-> NewCustomer,
     method |-> method, rule |-> rule.name, form |-> seg.form, drv |-> drv]

\* URL matching, then the method's handler with the converted customer_id.
dispatch(method, rule, seg, drv, d, n) ==
    IF seg.form # rule.conv
    THEN HRes(Abort(404), NewCustomer, d, n)        \* no URL rule matches
    ELSE IF method \notin rule.methods
    THEN HRes(Abort(405), NewCustomer, d, n)        \* method not allowed
    ELSE IF rule.name = "customer"
    THEN IF drv = "dberror"
         THEN HRes(Failed(Err("StorageError", "find", "id")), NewCustomer, d, n)
         ELSE CASE method = "GET" -> CustomerResource_get(UuidKey(seg.n), d, n)
                [] method = "PUT" ->
                     CustomerResource_put(UuidKey(seg.n), RoutedBody, d, n)
                [] method = "DELETE" ->
                     CustomerResource_delete(UuidKey(seg.n), d, n)
    ELSE IF rule.name = "activate"
    THEN ActivateResource_patch(seg.n, d, n)
    ELSE DeactivateResource_patch(seg.n, d, n)

\* One request on a by-id URL.
Routed ==
    \E method \in Methods, rule \in Rules, seg \in Segments, drv \in Drivers :
        Handle(RoutedReq(method, rule, seg, drv),
               dispatch(method, rule, seg, drv, db, nextId))

NextRouted ==
    \/ Create
    \/ Routed

SpecRouted == Init /\ [][NextRouted]_vars

\* A request on URL rule `rule` with `method`.
IsRouted(r, method, rule) ==
    r.op = "route" /\ r.method = method /\ r.rule = rule

\* C11: a retrieve of the id of the 201 body, right after the create,
\* answers 200 with the body the create answered; a retrieve of a stored id
\* answers what is stored, and an activate that answers 200 has stored
\* active True (so retrieves show it until the row is changed again).
C11_RetrieveAfterCreate ==
    [][/\ (/\ req.op = "post" /\ resp.status = 201
           /\ IsRouted(req', "GET", "customer")
           /\ req'.form = "int" /\ req'.id = resp.body.id.n)
          => /\ resp'.status = 200
             /\ resp'.body = resp.body
       /\ (/\ IsRouted(req', "GET", "customer")
           /\ req'.form = "int" /\ Found(db, req'.id))
          => /\ resp'.status = 200
             /\ resp'.body = serialize(db[req'.id])
       /\ (/\ req'.op = "route" /\ req'.rule = "activate"
           /\ req'.form = "int" /\ resp'.status = 200)
          => db'[req'.id].active = Bool(TRUE)]_vars


\* The row a replace with body `data` on path id p leaves.
Replaced(p, data) ==
    Customer(Num(p), data.name, data.email, data.password, data.address,
             data.active)

\* C12: a replace that answers 200 on path id p stores and returns the row
\* with id p and the body's name, email, password, address and active,
\* whatever id the body carries; no row is added or removed and every other
\* row (the one of the body's id included) stays as it was.
C12_ReplaceKeepsPathId ==
    [][(req'.op = "put" /\ resp'.status = 200)
       => /\ Found(db, req'.id)
          /\ db' = [db EXCEPT ![req'.id] = Replaced(req'.id, req'.data)]
          /\ resp'.body = serialize(Replaced(req'.id, req'.data))
          /\ nextId' = nextId]_vars

C12_Witness ==
    /\ req.op = "put"
    /\ resp.status = 200
    /\ req.data.id.t = "int"
    /\ req.data.id.n # req.id
    /\ Found(db, req.data.id.n)
    /\ db[req.data.id.n].name # req.data.name
    /\ db[req.id].name = req.data.name


\* C13: whatever requests were served, every stored row has a name, an
\* email and a password that are strings with a non-whitespace character.
C13_StoredRowsNonBlank ==
    \A i \in DOMAIN db : \A f \in Required : NonBlankStr(db[i][f])

C13_Witness ==
    /\ req.op = "put"
    /\ JsonObject(req)
    /\ Deserializes(req.data)
    /\ req.data.password = Blank
    /\ resp.status = 400
    /\ resp.err = DVE("notset", "password")
    /\ Found(db, req.id)
    /\ Cardinality(DOMAIN db) = 2


\* The error was raised by deserialize().
FromDeserialize(e) == IsDVE(e) /\ e.kind \in {"missing", "badtype", "baddata"}

\* C14: when deserialize() fails on the entity a replace loaded, the entity
\* has every field as it was loaded and the stored row is as it was before
\* the request.
C14_FailedDeserializeChangesNothing ==
    [][(/\ req'.op = "put"
        /\ Found(db, req'.id)
        /\ FromDeserialize(resp'.err))
       => /\ resp'.status = 400
          /\ ent' = db[req'.id]
          /\ db' = db]_vars

=============================================================================
